---- MODULE Spec2Model ----
(***************************************************************************)
(* Model of cuproj/error.hpp: the exception taxonomy, the condition-check  *)
(* macros, the unconditional-failure macro, the CUDA runtime-call guard    *)
(* and the debug synchronization guard, run by one host (or device) thread *)
(* against a CUDA runtime that keeps a last-error flag.                    *)
(***************************************************************************)
EXTENDS Integers, Sequences, FiniteSets, TLC

VARIABLES
  build,      \* "debug" or "release" (NDEBUG defined)
  target,     \* "host" or "device" (__CUDA_ARCH__ defined)
  pc,         \* the thread's position: between statements or inside a guard
  stmt,       \* the macro invocation executing, or the last one executed
  todo,       \* the runtime calls the current statement has still to guard
  status,     \* CUPROJ_CUDA_TRY's local `status`
  lastError,  \* the runtime's last-error flag
  deferred,   \* a fault of enqueued work that no runtime call has reported yet
  exc,        \* the exception in flight, NoException when there is none
  trace,      \* runtime calls and raises of the most recent guard statement
  quiet       \* a guard has raised and no runtime call has failed since

vars == <<build, target, pc, stmt, todo, status, lastError, deferred, exc, trace, quiet>>

\* ---------------------------------------------------------------- inputs

\* Call sites (__FILE__, __LINE__) of the macro invocations.
Sites == {<<"proj.cu", 7>>, <<"transform.cuh", 120>>}

\* Descriptions passed as the `reason` string literal.
Reasons == {"index out of range", "failure"}

cudaSuccess == 0

\* cudaErrorInvalidValue, cudaErrorInvalidDevice, cudaErrorLaunchFailure.
ErrorCodes == {1, 101, 719}

Statuses == {cudaSuccess} \cup ErrorCodes

\* Errors a kernel running asynchronously on the stream can leave behind.
AsyncErrors == {719}

\* Runtime calls a program wraps in CUPROJ_CUDA_TRY directly.
WrappedCalls == {"cudaSetDevice"}

\* ------------------------------------------------------ string helpers

Digit(d) == SubSeq("0123456789", d + 1, d + 1)

\* std::to_string on a non-negative integer: its decimal digits.
RECURSIVE to_string(_)
to_string(n) == IF n < 10 THEN Digit(n) ELSE to_string(n \div 10) \o Digit(n % 10)

\* CUPROJ_STRINGIFY(__LINE__): the line number's decimal spelling.
CUPROJ_STRINGIFY(x) == to_string(x)

\* ------------------------------------------------------ error taxonomy

NoException == [type |-> "none", what |-> ""]

logic_error(message) == [type |-> "cuproj::logic_error", what |-> message]

cuda_error(message) == [type |-> "cuproj::cuda_error", what |-> message]

\* The type CUPROJ_EXPECTS names in its throw expression.
cuspatial_logic_error(message) == [type |-> "cuspatial::logic_error", what |-> message]

\* ------------------------------------------------- CUDA status decoding

cudaGetErrorName(error) ==
  CASE error = 0   -> "cudaSuccess"
    [] error = 1   -> "cudaErrorInvalidValue"
    [] error = 101 -> "cudaErrorInvalidDevice"
    [] error = 719 -> "cudaErrorLaunchFailure"
    [] OTHER       -> "unrecognized error code"

cudaGetErrorString(error) ==
  CASE error = 0   -> "no error"
    [] error = 1   -> "invalid argument"
    [] error = 101 -> "invalid device ordinal"
    [] error = 719 -> "unspecified launch failure"
    [] OTHER       -> "unrecognized error code"

\* ------------------------------------------------------------- macros

\* CUPROJ_EXPECTS with its test the wrong way round.
CUPROJ_EXPECTS_negated(cond, reason, file, line) ==
  IF ~cond
    THEN NoException
    ELSE cuspatial_logic_error("cuProj failure at: " \o file \o ":"
                               \o CUPROJ_STRINGIFY(line) \o ": " \o reason)

\* The exception CUPROJ_EXPECTS(cond, reason) throws at file:line, if any.
CUPROJ_EXPECTS(cond, reason, file, line) ==
  IF cond
    THEN NoException
    ELSE cuspatial_logic_error("cuProj failure at: " \o file \o ":"
                               \o CUPROJ_STRINGIFY(line) \o ": " \o reason)

\* cuproj_assert(e): TRUE when the device assertion fires and halts.
cuproj_assert(e) == ~e

\* CUPROJ_HOST_DEVICE_EXPECTS(cond, reason), compiled for `tgt`.  On the
\* device the asserted expression is cond && reason, and a string literal
\* converts to true.
CUPROJ_HOST_DEVICE_EXPECTS(tgt, cond, reason, file, line) ==
  IF tgt = "host"
    THEN [halt |-> FALSE, exc |-> CUPROJ_EXPECTS(cond, reason, file, line)]
    ELSE [halt |-> cuproj_assert(cond /\ TRUE), exc |-> NoException]

\* CUPROJ_FAIL without the blank between the location and the reason.
CUPROJ_FAIL_unspaced(reason, file, line) ==
  logic_error("cuProj failure at: " \o file \o ":" \o CUPROJ_STRINGIFY(line)
              \o ":" \o reason)

\* The exception CUPROJ_FAIL(reason) throws at file:line.
CUPROJ_FAIL(reason, file, line) ==
  logic_error("cuProj failure at: " \o file \o ":" \o CUPROJ_STRINGIFY(line)
              \o ":" \o " " \o reason)

\* throw_cuda_error without the status's symbolic name.
throw_cuda_error_unnamed(error, file, line) ==
  cuda_error("CUDA error encountered at: " \o file \o ":" \o to_string(line)
             \o ": " \o to_string(error) \o " " \o cudaGetErrorString(error))

\* The exception cuproj::detail::throw_cuda_error throws.
throw_cuda_error(error, file, line) ==
  cuda_error("CUDA error encountered at: " \o file \o ":" \o to_string(line)
             \o ": " \o to_string(error) \o " " \o cudaGetErrorName(error)
             \o " " \o cudaGetErrorString(error))

\* The guard's test the wrong way round.
GuardBranchInverted(st) == IF cudaSuccess = st THEN "clear" ELSE "done"

\* The guard clearing and raising whatever the status.
GuardBranchAlways(st) == "clear"

\* if (cudaSuccess != status) of CUPROJ_CUDA_TRY: where control goes.
GuardBranch(st) == IF cudaSuccess # st THEN "clear" ELSE "done"

\* CUPROJ_CHECK_CUDA without its NDEBUG branch.
CUPROJ_CHECK_CUDA_always_sync(bld) ==
  <<"cudaStreamSynchronize", "cudaPeekAtLastError">>

\* The runtime calls CUPROJ_CHECK_CUDA(stream) guards, in order.
CUPROJ_CHECK_CUDA(bld) ==
  IF bld = "debug"
    THEN <<"cudaStreamSynchronize", "cudaPeekAtLastError">>
    ELSE <<"cudaPeekAtLastError">>

\* ------------------------------------------------------- CUDA runtime

\* Each call yields its return code and the runtime state it leaves.
cudaGetLastError ==
  [rc |-> lastError, lastError |-> cudaSuccess, deferred |-> deferred]

cudaPeekAtLastError ==
  [rc |-> lastError, lastError |-> lastError, deferred |-> deferred]

\* A call that fails with r records r; a call that succeeds leaves the flag.
cudaApiCall(r) ==
  [rc |-> r, lastError |-> IF r # cudaSuccess THEN r ELSE lastError,
   deferred |-> deferred]

\* Waits for the stream: a fault of the enqueued work surfaces here.
cudaStreamSynchronize(r) ==
  IF deferred # cudaSuccess
    THEN [rc |-> deferred, lastError |-> deferred, deferred |-> cudaSuccess]
    ELSE cudaApiCall(r)

Invoke(call, r) ==
  CASE call = "cudaPeekAtLastError"   -> cudaPeekAtLastError
    [] call = "cudaStreamSynchronize" -> cudaStreamSynchronize(r)
    [] OTHER                          -> cudaApiCall(r)

Event(op, rc) == [op |-> op, rc |-> rc]

\* ------------------------------------------------------------- state

NoStmt ==
  [macro |-> "none", cond |-> TRUE, reason |-> "", file |-> "", line |-> 0,
   calls |-> <<>>]

Statement(macro, cond, reason, site, calls) ==
  [macro |-> macro, cond |-> cond, reason |-> reason, file |-> site[1],
   line |-> site[2], calls |-> calls]

Init ==
  /\ build \in {"debug", "release"}
  /\ target \in {"host", "device"}
  /\ pc = "idle"
  /\ stmt = NoStmt
  /\ todo = <<>>
  /\ status = cudaSuccess
  /\ lastError = cudaSuccess
  /\ deferred = cudaSuccess
  /\ exc = NoException
  /\ trace = <<>>
  /\ quiet = FALSE

\* ------------------------------------------------------------ actions

\* A statement CUPROJ_EXPECTS(cond, reason); in host code.
Expects ==
  /\ pc = "idle" /\ target = "host"
  /\ \E cond \in BOOLEAN, reason \in Reasons, site \in Sites :
       LET e == CUPROJ_EXPECTS(cond, reason, site[1], site[2]) IN
         /\ stmt' = Statement("CUPROJ_EXPECTS", cond, reason, site, <<>>)
         /\ exc' = e
         /\ pc' = IF e = NoException THEN "idle" ELSE "raised"
  /\ UNCHANGED <<build, target, todo, status, lastError, deferred, trace, quiet>>

\* A statement CUPROJ_HOST_DEVICE_EXPECTS(cond, reason); in code compiled
\* for the current target.
HostDeviceExpects ==
  /\ pc = "idle"
  /\ \E cond \in BOOLEAN, reason \in Reasons, site \in Sites :
       LET o == CUPROJ_HOST_DEVICE_EXPECTS(target, cond, reason, site[1], site[2]) IN
         /\ stmt' = Statement("CUPROJ_HOST_DEVICE_EXPECTS", cond, reason, site, <<>>)
         /\ exc' = o.exc
         /\ pc' = IF o.halt THEN "halted"
                  ELSE IF o.exc = NoException THEN "idle" ELSE "raised"
  /\ UNCHANGED <<build, target, todo, status, lastError, deferred, trace, quiet>>

\* A statement CUPROJ_FAIL(reason); in host code.
Fail ==
  /\ pc = "idle" /\ target = "host"
  /\ \E reason \in Reasons, site \in Sites :
       /\ stmt' = Statement("CUPROJ_FAIL", TRUE, reason, site, <<>>)
       /\ exc' = CUPROJ_FAIL(reason, site[1], site[2])
  /\ pc' = "raised"
  /\ UNCHANGED <<build, target, todo, status, lastError, deferred, trace, quiet>>

\* Entry of a statement CUPROJ_CUDA_TRY(call);
BeginCudaTry ==
  /\ pc = "idle" /\ target = "host"
  /\ \E call \in WrappedCalls, site \in Sites :
       /\ stmt' = Statement("CUPROJ_CUDA_TRY", TRUE, "", site, <<call>>)
       /\ todo' = <<call>>
  /\ pc' = "call"
  /\ trace' = <<>>
  /\ UNCHANGED <<build, target, status, lastError, deferred, exc, quiet>>

\* Entry of a statement CUPROJ_CHECK_CUDA(stream);
BeginCheckCuda ==
  /\ pc = "idle" /\ target = "host"
  /\ \E site \in Sites :
       stmt' = Statement("CUPROJ_CHECK_CUDA", TRUE, "", site, CUPROJ_CHECK_CUDA(build))
  /\ todo' = CUPROJ_CHECK_CUDA(build)
  /\ pc' = "call"
  /\ trace' = <<>>
  /\ UNCHANGED <<build, target, status, lastError, deferred, exc, quiet>>

\* CUPROJ_CUDA_TRY: cudaError_t const status = (call); and the test of it.
TryCall ==
  /\ pc = "call"
  /\ \E r \in Statuses :
       LET res  == Invoke(Head(todo), r)
           next == GuardBranch(res.rc) IN
         /\ status' = res.rc
         /\ lastError' = res.lastError
         /\ deferred' = res.deferred
         /\ trace' = Append(trace, Event(Head(todo), res.rc))
         /\ quiet' = (quiet /\ res.rc = cudaSuccess)
         /\ todo' = IF next = "done" THEN Tail(todo) ELSE todo
         /\ pc' = IF next = "done"
                    THEN (IF Tail(todo) = <<>> THEN "idle" ELSE "call")
                    ELSE next
  /\ UNCHANGED <<build, target, stmt, exc>>

\* The guard going on to raise without the cudaGetLastError() call.
TryClearSkipped ==
  /\ pc = "clear"
  /\ pc' = "throw"
  /\ UNCHANGED <<build, target, stmt, todo, status, exc, lastError, deferred, trace, quiet>>

\* The guard calling cudaPeekAtLastError() where it should clear.
TryClearPeeks ==
  /\ pc = "clear"
  /\ lastError' = cudaPeekAtLastError.lastError
  /\ deferred' = cudaPeekAtLastError.deferred
  /\ trace' = Append(trace, Event("cudaGetLastError", cudaPeekAtLastError.rc))
  /\ pc' = "throw"
  /\ UNCHANGED <<build, target, stmt, todo, status, exc, quiet>>

\* CUPROJ_CUDA_TRY: cudaGetLastError();
TryClear ==
  /\ pc = "clear"
  /\ lastError' = cudaGetLastError.lastError
  /\ deferred' = cudaGetLastError.deferred
  /\ trace' = Append(trace, Event("cudaGetLastError", cudaGetLastError.rc))
  /\ pc' = "throw"
  /\ UNCHANGED <<build, target, stmt, todo, status, exc, quiet>>

\* CUPROJ_CUDA_TRY: cuproj::detail::throw_cuda_error(status, __FILE__, __LINE__);
TryThrow ==
  /\ pc = "throw"
  /\ exc' = throw_cuda_error(status, stmt.file, stmt.line)
  /\ trace' = Append(trace, Event("throw", status))
  /\ pc' = "raised"
  /\ quiet' = TRUE
  /\ UNCHANGED <<build, target, stmt, todo, status, lastError, deferred>>

\* An enclosing handler catches the exception and the program goes on.
Catch ==
  /\ pc = "raised"
  /\ pc' = "idle"
  /\ exc' = NoException
  /\ todo' = <<>>
  /\ status' = cudaSuccess
  /\ stmt' = NoStmt
  /\ UNCHANGED <<build, target, lastError, deferred, trace, quiet>>

\* A runtime call the program does not guard, such as a kernel launch.
UnguardedCall ==
  /\ pc = "idle" /\ target = "host"
  /\ \E r \in Statuses :
       LET res == cudaApiCall(r) IN
         /\ lastError' = res.lastError
         /\ quiet' = (quiet /\ res.rc = cudaSuccess)
  /\ UNCHANGED <<build, target, pc, stmt, todo, status, deferred, exc, trace>>

\* Work enqueued on the stream faults on the device; no call has seen it yet.
KernelFault ==
  /\ target = "host" /\ pc \in {"idle", "call"}
  /\ deferred = cudaSuccess
  /\ \E e \in AsyncErrors : deferred' = e
  /\ UNCHANGED <<build, target, pc, stmt, todo, status, lastError, exc, trace, quiet>>

Next ==
  \/ Expects
  \/ HostDeviceExpects
  \/ Fail
  \/ BeginCudaTry
  \/ BeginCheckCuda
  \/ TryCall
  \/ TryClear
  \/ TryThrow
  \/ Catch
  \/ UnguardedCall
  \/ KernelFault

Spec == Init /\ [][Next]_vars

TypeOK ==
  /\ build \in {"debug", "release"}
  /\ target \in {"host", "device"}
  /\ pc \in {"idle", "call", "clear", "throw", "raised", "halted"}
  /\ status \in Statuses
  /\ lastError \in Statuses
  /\ deferred \in Statuses
  /\ Len(trace) <= 4
  /\ quiet \in BOOLEAN

\* ------------------------------------------------------------ claims

GuardMacros == {"CUPROJ_CUDA_TRY", "CUPROJ_CHECK_CUDA"}

CheckMacros == {"CUPROJ_EXPECTS", "CUPROJ_HOST_DEVICE_EXPECTS"}

\* "<file>:<line>" as it must read for the call sites of the model.
ExpectedSite(file, line) ==
  CASE line = 7   -> file \o ":7"
    [] line = 120 -> file \o ":120"

\* "<numeric status> <symbolic name> <description>" as it must read.
ExpectedStatus(st) ==
  CASE st = 1   -> "1 cudaErrorInvalidValue invalid argument"
    [] st = 101 -> "101 cudaErrorInvalidDevice invalid device ordinal"
    [] st = 719 -> "719 cudaErrorLaunchFailure unspecified launch failure"

ExpectedLogicMessage ==
  "cuProj failure at: " \o ExpectedSite(stmt.file, stmt.line) \o ": " \o stmt.reason

\* How many times sub occurs in s, overlapping occurrences included.
Occurrences(sub, s) ==
  Cardinality({i \in 1..(Len(s) - Len(sub) + 1) : SubSeq(s, i, i + Len(sub) - 1) = sub})

Ops(events) == [i \in 1..Len(events) |-> events[i].op]

\* The calls of the current statement whose guards have completed.
GuardsDone == Len(stmt.calls) - Len(todo)

\* What the guard that is failing has done so far.
FailingGuardOps == Ops(SubSeq(trace, GuardsDone + 1, Len(trace)))

\* C1: a guard whose wrapped call returned a non-success status never
\* completes normally; it raises a cuproj::cuda_error (never a logic_error)
\* whose message is "CUDA error encountered at: <file>:<line>: <numeric
\* status> <symbolic name> <description>" for the guard's call site.
C1_NonSuccessRaisesCudaError ==
  stmt.macro \in GuardMacros =>
    /\ status # cudaSuccess => pc \in {"clear", "throw", "raised"}
    /\ pc = "raised" =>
         /\ status # cudaSuccess
         /\ exc = [type |-> "cuproj::cuda_error",
                   what |-> "CUDA error encountered at: "
                            \o ExpectedSite(stmt.file, stmt.line) \o ": "
                            \o ExpectedStatus(status)]

C1_Witness ==
  /\ pc = "raised" /\ stmt.macro = "CUPROJ_CUDA_TRY"
  /\ status = 101 /\ stmt.line = 120
  /\ exc.type = "cuproj::cuda_error"

\* C2: a failing guard evaluates the wrapped call once, then calls
\* cudaGetLastError once, then raises; when the exception is raised the
\* last-error flag is already cleared, and the call is not evaluated again.
C2_CallThenClearThenRaise ==
  stmt.macro \in GuardMacros =>
    /\ pc = "clear" => FailingGuardOps = <<Head(todo)>>
    /\ pc = "throw" =>
         /\ FailingGuardOps = <<Head(todo), "cudaGetLastError">>
         /\ lastError = cudaSuccess
    /\ pc = "raised" =>
         /\ FailingGuardOps = <<Head(todo), "cudaGetLastError", "throw">>
         /\ lastError = cudaSuccess

C2_Witness ==
  /\ pc = "raised" /\ stmt.macro = "CUPROJ_CUDA_TRY"
  /\ trace = <<Event("cudaSetDevice", 719), Event("cudaGetLastError", 719),
               Event("throw", 719)>>
  /\ lastError = cudaSuccess

\* C3: when the wrapped call of CUPROJ_CUDA_TRY returns cudaSuccess the
\* guard completes at once: nothing is raised, cudaGetLastError is not
\* called and the last-error flag keeps its value, a pending error included.
C3_SuccessIsNoOp ==
  [][(/\ pc = "call" /\ stmt.macro = "CUPROJ_CUDA_TRY"
      /\ pc' # "call" /\ status' = cudaSuccess)
     => /\ pc' = "idle"
        /\ exc' = NoException
        /\ trace' = <<Event(Head(todo), cudaSuccess)>>
        /\ lastError' = lastError]_vars

C3_Witness ==
  /\ pc = "idle" /\ stmt.macro = "CUPROJ_CUDA_TRY"
  /\ trace = <<Event("cudaSetDevice", cudaSuccess)>>
  /\ lastError = 101
  /\ exc = NoException

\* C4: in host code a false condition makes CUPROJ_EXPECTS and
\* CUPROJ_HOST_DEVICE_EXPECTS raise this library's cuproj::logic_error with
\* the message "cuProj failure at: <file>:<line>: <description>".
C4_FalseConditionRaisesCuprojLogicError ==
  (stmt.macro \in CheckMacros /\ target = "host" /\ ~stmt.cond) =>
    /\ pc = "raised"
    /\ exc = [type |-> "cuproj::logic_error", what |-> ExpectedLogicMessage]

\* C5: a condition check whose condition is true raises nothing, builds no
\* exception and leaves the runtime's state, the last-error flag included,
\* as it was, however often it is repeated.
C5_TrueConditionNoEffect ==
  [][((Expects \/ HostDeviceExpects) /\ stmt'.cond)
     => /\ pc' = "idle"
        /\ exc' = NoException
        /\ UNCHANGED <<lastError, deferred, trace, quiet, status, todo, exc>>]_vars

C5_Witness ==
  /\ pc = "idle" /\ stmt.macro = "CUPROJ_EXPECTS" /\ stmt.cond
  /\ exc = NoException
  /\ lastError = 719

\* C6 as stated: CUPROJ_FAIL(D) never completes normally and raises a
\* cuproj::logic_error "cuProj failure at: <file>:<line>: D" in which D
\* occurs exactly once.
C6_Original_ReasonOccursOnce ==
  stmt.macro = "CUPROJ_FAIL" =>
    /\ pc = "raised"
    /\ exc = [type |-> "cuproj::logic_error", what |-> ExpectedLogicMessage]
    /\ Occurrences(stmt.reason, exc.what) = 1

\* C6 amended: CUPROJ_FAIL(D) never completes normally and raises a
\* cuproj::logic_error whose message is exactly "cuProj failure at:
\* <file>:<line>: D": D is appended once, as the message's end, and occurs
\* once in all unless D also occurs in the message before that end.
C6_ReasonAppendedOnce ==
  stmt.macro = "CUPROJ_FAIL" =>
    /\ pc = "raised"
    /\ exc = [type |-> "cuproj::logic_error", what |-> ExpectedLogicMessage]
    /\ SubSeq(exc.what, Len(exc.what) - Len(stmt.reason) + 1, Len(exc.what)) = stmt.reason
    /\ \/ Occurrences(stmt.reason, exc.what) = 1
       \/ Occurrences(stmt.reason, SubSeq(exc.what, 1, Len(exc.what) - 1)) >= 1

C6_Witness ==
  /\ pc = "raised" /\ stmt.macro = "CUPROJ_FAIL"
  /\ stmt.reason = "index out of range"
  /\ exc.what = "cuProj failure at: transform.cuh:120: index out of range"

\* C7: CUPROJ_CHECK_CUDA in a debug build guards cudaStreamSynchronize
\* first and cudaPeekAtLastError only after it succeeded; in a release
\* build it never synchronizes and guards the peek alone; in both a
\* non-success result raises a cuproj::cuda_error.
C7_CheckCudaOrder ==
  stmt.macro = "CUPROJ_CHECK_CUDA" =>
    /\ build = "debug" =>
         /\ trace # <<>> => trace[1].op = "cudaStreamSynchronize"
         /\ \A i \in 1..Len(trace) :
              trace[i].op = "cudaPeekAtLastError" =>
                i = 2 /\ trace[1] = Event("cudaStreamSynchronize", cudaSuccess)
         /\ pc = "idle" =>
              Ops(trace) = <<"cudaStreamSynchronize", "cudaPeekAtLastError">>
    /\ build = "release" =>
         /\ \A i \in 1..Len(trace) : trace[i].op # "cudaStreamSynchronize"
         /\ trace # <<>> => trace[1].op = "cudaPeekAtLastError"
         /\ pc = "idle" => Ops(trace) = <<"cudaPeekAtLastError">>
    /\ \A i \in 1..Len(trace) :
         (trace[i].op \in {"cudaStreamSynchronize", "cudaPeekAtLastError"}
            /\ trace[i].rc # cudaSuccess)
         => /\ i = GuardsDone + 1
            /\ pc \in {"clear", "throw", "raised"}
    /\ pc = "raised" => exc.type = "cuproj::cuda_error"

C7_Witness ==
  /\ build = "debug" /\ stmt.macro = "CUPROJ_CHECK_CUDA" /\ pc = "raised"
  /\ Ops(trace) = <<"cudaStreamSynchronize", "cudaGetLastError", "throw">>
  /\ exc.type = "cuproj::cuda_error"

\* C8: CUPROJ_HOST_DEVICE_EXPECTS behaves by compilation target alone:
\* for the host a false condition raises a cuproj::logic_error and never
\* halts; for the device a false condition halts through cuproj_assert and
\* never raises; a true condition neither raises nor halts.
C8_HostRaisesDeviceHalts ==
  stmt.macro = "CUPROJ_HOST_DEVICE_EXPECTS" =>
    /\ (target = "host" /\ ~stmt.cond) =>
         pc = "raised" /\ exc.type = "cuproj::logic_error"
    /\ (target = "device" /\ ~stmt.cond) =>
         pc = "halted" /\ exc = NoException
    /\ stmt.cond => pc \notin {"raised", "halted"} /\ exc = NoException

\* C9: once a guard has raised a cuproj::cuda_error, and as long as no
\* runtime call has failed since, the peek of CUPROJ_CHECK_CUDA returns
\* cudaSuccess and raises nothing.
C9_FailureReportedOnce ==
  [][(/\ quiet /\ pc = "call" /\ stmt.macro = "CUPROJ_CHECK_CUDA"
      /\ Head(todo) = "cudaPeekAtLastError" /\ pc' # "call")
     => /\ pc' = "idle"
        /\ status' = cudaSuccess
        /\ exc' = NoException]_vars

C9_Witness ==
  /\ quiet /\ pc = "idle" /\ stmt.macro = "CUPROJ_CHECK_CUDA"
  /\ trace[Len(trace)] = Event("cudaPeekAtLastError", cudaSuccess)
  /\ exc = NoException

\* C10 as stated: every guard invocation starts by reading and clearing the
\* last-error flag, whether its wrapped call succeeds or fails.
C10_Original_ClearedAtStart ==
  (stmt.macro \in GuardMacros /\ trace # <<>>) =>
    trace[1].op = "cudaGetLastError"

\* C10 amended: a guard reads and clears the last-error flag only after its
\* wrapped call returned a non-success status, right after that call and
\* before raising; a guard whose call succeeds never clears the flag.
C10_ClearedOnlyAfterFailure ==
  stmt.macro \in GuardMacros =>
    /\ \A i \in 1..Len(trace) :
         trace[i].op = "cudaGetLastError" =>
           /\ i > 1
           /\ trace[i - 1].op = Head(todo)
           /\ trace[i - 1].rc # cudaSuccess
           /\ pc \in {"throw", "raised"}
    /\ pc \in {"throw", "raised"} =>
         \E i \in 1..Len(trace) : trace[i].op = "cudaGetLastError"
    /\ pc \in {"idle", "call", "clear"} =>
         \A i \in 1..Len(trace) : trace[i].op # "cudaGetLastError"

C10_Witness ==
  /\ pc = "throw" /\ stmt.macro = "CUPROJ_CUDA_TRY"
  /\ trace = <<Event("cudaSetDevice", 1), Event("cudaGetLastError", 1)>>
  /\ lastError = cudaSuccess

====
